---- MODULE Spec2Model ----
(***************************************************************************)
(* A model of src/react/hooks/useQuery.ts: the useQuery binding between an *)
(* ObservableQuery (push) and useSyncExternalStore (pull).                 *)
(*                                                                         *)
(* One binding instance is modelled.  A cycle is one execution of the body *)
(* of useQuery (Mount, Update or Rerender) followed by the flush of that   *)
(* render's passive effects (Effects).  The engine pushes results between  *)
(* those steps (Push).                                                     *)
(***************************************************************************)
EXTENDS Integers, FiniteSets, Sequences, TLC

\* ------------------------------------------------------------------ bounds
MaxUpdates == 2    \* renders with new props after the mount
MaxPush == 2       \* results pushed by the engine

\* ------------------------------------------------------- values and inputs
Clients == {"c1", "c2"}
Queries == {"Q1", "Q2"}
FetchPolicies ==
  {"cache-first", "network-only", "cache-and-network", "no-cache", "standby"}
NetworkStatuses == {1, 7, 8}          \* loading, ready, error
Errors == {"none", "e1", "e2"}
VariableIds == {1, 2}                 \* variables {id: 1}, {id: 2}
DataValues == {0, 1}                  \* 0 is "data undefined"

\* The fields createWatchQueryOptions removes (lines 174-181).
HookFields == {"skip", "ssr", "onCompleted", "onError", "displayName"}

Has(o, f) == f \in DOMAIN o

\* An options object literal.  A choice of 0 (or "absent") leaves the field
\* out; skip and ssr: 1 is false, 2 is true; context: 1 is a context without
\* renderPromises, 2 one with it; dn: 1 is a displayName.
MkOptions(sk, ss, fp, v, cx, dn) ==
  LET D == (IF sk # 0 THEN {"skip"} ELSE {})
           \cup (IF ss # 0 THEN {"ssr"} ELSE {})
           \cup (IF fp # "absent" THEN {"fetchPolicy"} ELSE {})
           \cup (IF v # 0 THEN {"variables"} ELSE {})
           \cup (IF cx # 0 THEN {"context"} ELSE {})
           \cup (IF dn # 0 THEN {"displayName"} ELSE {})
  IN [f \in D |->
        CASE f = "skip" -> (sk = 2)
          [] f = "ssr" -> (ss = 2)
          [] f = "fetchPolicy" -> fp
          [] f = "variables" -> [id |-> v]
          [] f = "context" -> [renderPromises |-> (cx = 2)]
          [] f = "displayName" -> "Name"]

\* Every options object over the given choices.
OptionsOver(SK, SS, FP, V, CX, DN) ==
  { MkOptions(sk, ss, fp, v, cx, dn) :
      sk \in SK, ss \in SS, fp \in FP, v \in V, cx \in CX, dn \in DN }

PlainOptions ==
  OptionsOver(0..2, {0, 1}, FetchPolicies \cup {"absent"}, {0} \cup VariableIds, 0..2, {0, 1})

\* o with the lifecycle callbacks onCompleted and onError.
WithCallbacks(o) ==
  [f \in (DOMAIN o) \cup {"onCompleted", "onError"} |->
     IF f = "onCompleted" THEN "onCompleted()"
     ELSE IF f = "onError" THEN "onError()" ELSE o[f]]

\* o with a query field of its own.
WithQuery(o, q) ==
  [f \in (DOMAIN o) \cup {"query"} |-> IF f = "query" THEN q ELSE o[f]]

AllOptions ==
  PlainOptions
    \cup { WithCallbacks(o) : o \in PlainOptions }
    \cup { WithQuery(o, q) : o \in PlainOptions, q \in Queries }

\* The options a binding is rendered with in the lifecycle specification.
CycleOptions ==
  OptionsOver({0}, {0}, {"absent", "network-only"}, VariableIds, {0}, {0})

\* The options it is first rendered with (the first client, query and
\* variables are fixed: the others are the same up to renaming).
MountOptions ==
  OptionsOver({0}, {0}, {"absent", "network-only"}, {1}, {0}, {0})

\* options?.skip, options?.ssr !== false (lines 63-64).
OptSkip(o) == Has(o, "skip") /\ o.skip
OptSsrNotFalse(o) == ~(Has(o, "ssr") /\ o.ssr = FALSE)

\* @wry/equality equal(a, b): deep equality of two values.
equal(a, b) == a = b

\* r with field f set to v (an assignment to a property of a fresh object).
SetField(r, f, v) ==
  [g \in (DOMAIN r) \cup {f} |-> IF g = f THEN v ELSE r[g]]

\* ------------------------------------------------- createWatchQueryOptions
\* Lines 167-202.  watchQueryOptions is the rest of the destructuring, a new
\* object; the policy is assigned on it; query is spread first.
createWatchQueryOptions_SkipLast(query, options) ==
  LET rest == [f \in (DOMAIN options) \ HookFields |-> options[f]]
      fp == IF Has(rest, "fetchPolicy") THEN rest.fetchPolicy ELSE "undefined"
      rp == Has(rest, "context") /\ rest.context.renderPromises
      w == IF rp /\ fp \in {"network-only", "cache-and-network"}
             THEN SetField(rest, "fetchPolicy", "cache-first")
           ELSE IF OptSkip(options)
             THEN SetField(rest, "fetchPolicy", "standby")
           ELSE IF fp = "undefined"
             THEN SetField(rest, "fetchPolicy", "cache-first")
           ELSE rest
  IN [f \in (DOMAIN w) \cup {"query"} |->
        IF f \in DOMAIN w THEN w[f] ELSE query]

createWatchQueryOptions_AlwaysDefault(query, options) ==
  LET rest == [f \in (DOMAIN options) \ HookFields |-> options[f]]
      w == IF OptSkip(options)
             THEN SetField(rest, "fetchPolicy", "standby")
           ELSE SetField(rest, "fetchPolicy", "cache-first")
  IN [f \in (DOMAIN w) \cup {"query"} |->
        IF f \in DOMAIN w THEN w[f] ELSE query]

createWatchQueryOptions(query, options) ==
  LET rest == [f \in (DOMAIN options) \ HookFields |-> options[f]]
      fp == IF Has(rest, "fetchPolicy") THEN rest.fetchPolicy ELSE "undefined"
      rp == Has(rest, "context") /\ rest.context.renderPromises
      w == IF OptSkip(options)
             THEN SetField(rest, "fetchPolicy", "standby")
           ELSE IF rp /\ fp \in {"network-only", "cache-and-network"}
             THEN SetField(rest, "fetchPolicy", "cache-first")
           ELSE IF fp = "undefined"
             THEN SetField(rest, "fetchPolicy", "cache-first")
           ELSE rest
  IN [f \in (DOMAIN w) \cup {"query"} |->
        IF f \in DOMAIN w THEN w[f] ELSE query]

\* ------------------------------------------------------------------ state
VARIABLES
  pc,              \* "init", "commit" (rendered, effects pending), "idle",
                   \* "crashed" (an effect threw), "unmounted"
  rp,              \* context.renderPromises: present, observables, promises
  client, query, options,   \* the arguments of the current render
  prevProps,       \* the arguments of the render before it
  cycle,           \* renders so far
  ref,             \* ref.current (lines 33-38)
  obsState,        \* the useState cell holding the ObservableQuery (line 40)
  obsQuery,        \* the ObservableQuery the last render closed over
  previousResult,  \* the memo's closure variable (line 100): <<>> or <<r>>
  result,          \* what the last render returned (lines 148, 158-164)
  effectDue,       \* the reconcile effect's dependencies changed (line 146)
  subs,            \* the handles the store listener is subscribed to
  dirty,           \* a re-render has been scheduled
  handles,         \* the ObservableQuery objects created so far
  lastRead,        \* the last getSnapshot call: what it saw and returned
  lastEffect,      \* the last run of the reconcile effect
  thrown,          \* an exception escaped to the rendering runtime
  unhandled,       \* a promise rejection nobody caught
  updates, pushes, \* counters for the bounds
  inst,            \* useSyncExternalStore's record of what is committed
  norm,            \* the last createWatchQueryOptions call on its own
  waiter           \* the promise fetchData returns and its listener (73-89)

vars ==
  <<pc, rp, client, query, options, prevProps, cycle, ref, obsState, obsQuery,
    previousResult, result, effectDue, subs, dirty, handles, lastRead,
    lastEffect, thrown, unhandled, updates, pushes, inst, norm, waiter>>

bindingVars ==
  <<pc, rp, client, query, options, prevProps, cycle, ref, obsState, obsQuery,
    previousResult, result, effectDue, subs, dirty, handles, lastRead,
    lastEffect, thrown, unhandled, updates, pushes, inst>>

NoOptions == MkOptions(0, 0, "absent", 0, 0, 0)
NoConfig == [query |-> "none"]
NoProps == [client |-> "none", query |-> "none", options |-> NoOptions]
NoRef ==
  [client |-> "none", query |-> "none", options |-> NoOptions,
   watchQueryOptions |-> NoConfig]
NoEffect ==
  [ran |-> FALSE, kind |-> "none", outcome |-> "none", calls |-> 0,
   obsBefore |-> 0, cfgBefore |-> NoConfig, created |-> 0,
   watchQueryOptions |-> NoConfig]

\* --------------------------------------------- the engine (ObservableQuery)
\* An ApolloQueryResult object; id is the object's identity.
MkResult(h, n, l, ns, d, e) ==
  [id |-> <<h, n>>, loading |-> l, networkStatus |-> ns, data |-> d, error |-> e]

NoResult == MkResult(0, 0, FALSE, 0, 0, "none")

\* The results a new ObservableQuery may hold before its first push.
InitialResults == { <<TRUE, 1, 0>>, <<FALSE, 7, 1>> }

\* client.watchQuery(options): a new ObservableQuery, number h.
watchQuery(h, c, wqo, r0) ==
  [client |-> c, options |-> wqo, n |-> 0, setOptionsCalls |-> 0,
   result |-> MkResult(h, 0, r0[1], r0[2], r0[3], "none")]

\* obsQuery.setOptions(options): the options are applied to the same object.
setOptions(obs, wqo) ==
  [obs EXCEPT !.options = wqo, !.setOptionsCalls = @ + 1]

\* obsQuery.getCurrentResult()
getCurrentResult(obs) == obs.result

\* obsQuery.variables
Variables(obs) == IF Has(obs.options, "variables") THEN obs.options.variables.id ELSE 0

\* renderPromises.getSSRObservable(options): the registered handle, or 0.
getSSRObservable(store, wqo) ==
  IF \E e \in store.observables : equal(e[1], wqo)
    THEN (CHOOSE e \in store.observables : equal(e[1], wqo))[2]
    ELSE 0

\* ------------------------------------------------------------- getSnapshot
\* Lines 113-127: the new value of previousResult, which is what is returned.
getSnapshot_NoCache(prev, res) == <<res>>

getSnapshot_NoData(prev, res) ==
  IF ~( prev # <<>>
        /\ prev[1].loading = res.loading
        /\ prev[1].networkStatus = res.networkStatus )
    THEN <<res>>
    ELSE prev

getSnapshot(prev, res) ==
  IF ~( prev # <<>>
        /\ prev[1].loading = res.loading
        /\ prev[1].networkStatus = res.networkStatus
        /\ equal(prev[1].data, res.data) )
    THEN <<res>>
    ELSE prev

\* A getSnapshot call: previousResult before it, the result it read from
\* the handle, what it returned, previousResult after it, and what the call
\* before it returned.
ReadRecord(prev, res, after) ==
  [valid |-> TRUE, prev |-> prev, res |-> res, ret |-> after[1], after |-> after,
   retBefore |-> lastRead.ret]

NoRead ==
  [valid |-> FALSE, prev |-> <<>>, res |-> NoResult, ret |-> NoResult,
   after |-> <<>>, retBefore |-> NoResult]

\* The object useQuery returns (lines 158-164).
ResultObject(snap, obs, c) ==
  [snap |-> snap, variables |-> Variables(obs), client |-> c]

\* ------------------------------------------------------------------- Init
HookInit ==
  /\ pc = "init"
  /\ client = "none" /\ query = "none" /\ options = NoOptions
  /\ prevProps = NoProps
  /\ cycle = 0
  /\ ref = NoRef
  /\ obsState = 0 /\ obsQuery = 0
  /\ previousResult = <<>>
  /\ result = ResultObject(NoResult, [options |-> NoConfig], "none")
  /\ effectDue = FALSE
  /\ subs = {}
  /\ dirty = FALSE
  /\ lastRead = NoRead
  /\ lastEffect = NoEffect
  /\ thrown = FALSE /\ unhandled = FALSE
  /\ updates = 0 /\ pushes = 0

\* ... and no ObservableQuery exists yet.
BindingInit == HookInit /\ handles = <<>>

NoNorm ==
  [done |-> FALSE, query |-> "none", options |-> NoOptions, out |-> NoConfig,
   caller |-> NoOptions]

\* No fetchData call yet.  resolved: the paths that called resolve(), in
\* order; unsubscribed: the sub.unsubscribe() calls that went through;
\* failed: the listener calls that threw; subAssigned: `const sub` holds the
\* subscription (obsQuery.subscribe has returned); closed: the stream ended.
NoWaiter ==
  [started |-> FALSE, attached |-> FALSE, subAssigned |-> FALSE,
   closed |-> FALSE, resolved |-> <<>>, unsubscribed |-> 0, failed |-> 0,
   events |-> 0]

\* useSyncExternalStore (line 148) keeps, for its store listener, the
\* getSnapshot to call (here: the handle its memo was made for, with that
\* memo's previousResult when it is not the memo of the last render) and the
\* value to compare with.  React's own implementation (native) stores them
\* with the passive effects of a commit, the package's fallback for a React
\* without one stores them as the render is committed.
NoInst(native) ==
  [native |-> native, getSnapshot |-> 0, value |-> NoResult,
   previousResult |-> <<>>]

Init ==
  /\ BindingInit
  /\ rp \in [present : BOOLEAN, observables : {{}}, queryPromises : {0}]
  /\ inst \in {NoInst(native) : native \in BOOLEAN}
  /\ norm = NoNorm
  /\ waiter = NoWaiter

\* Lines 46-48: the handle the coordinator holds for the options, 0 if there
\* is no coordinator or it holds none.
SSRObservable_NeverAdopt(store, wqo) == 0

SSRObservable(store, wqo) ==
  IF store.present THEN getSSRObservable(store, wqo) ELSE 0

\* The test of lines 61-66: present is context.renderPromises, o the options,
\* r the handle's current result.
ShouldAddQueryPromise_IgnoreSkip(present, o, r) ==
  present /\ OptSsrNotFalse(o) /\ r.loading

ShouldAddQueryPromise(present, o, r) ==
  present /\ OptSsrNotFalse(o) /\ ~OptSkip(o) /\ r.loading

\* The package's fallback commits a render whose subscribe, value or
\* getSnapshot is new with a layout effect that stores them and calls
\* getSnapshot (113-127) once more, in the same synchronous step: the record
\* of that call, which started from the memo pr1 the render's call left.
CommitRead(pr1, res, after) ==
  [valid |-> TRUE, prev |-> pr1, res |-> res, ret |-> after[1], after |-> after,
   retBefore |-> pr1[1]]

\* ------------------------------------------------------------------ Mount
\* The first render: lines 30-97 (the ref and the useState initializer), the
\* memo (99-130), the first snapshot read (148) and the returned object.
Mount(c, q, o, r0) ==
  /\ pc = "init"
  /\ LET wqo == createWatchQueryOptions(q, o)
         found == SSRObservable(rp, wqo)
         h == IF found # 0 THEN found ELSE Len(handles) + 1
         handles1 == IF found # 0 THEN handles
                     ELSE Append(handles, watchQuery(h, c, wqo, r0))
         register == rp.present /\ found = 0
         addPromise == ShouldAddQueryPromise(rp.present, o,
                                             getCurrentResult(handles1[h]))
         res == getCurrentResult(handles1[h])
         pr1 == getSnapshot(<<>>, res)
         pr == IF inst.native THEN pr1 ELSE getSnapshot(pr1, res)
     IN /\ ref' = [client |-> c, query |-> q, options |-> o,
                   watchQueryOptions |-> wqo]
        /\ handles' = handles1
        /\ obsState' = h
        /\ obsQuery' = h
        /\ rp' = [rp EXCEPT
                    !.observables = IF register THEN @ \cup {<<wqo, h>>} ELSE @,
                    !.queryPromises = IF addPromise THEN @ + 1 ELSE @]
        /\ previousResult' = pr
        /\ lastRead' = IF inst.native THEN ReadRecord(<<>>, res, pr1)
                       ELSE CommitRead(pr1, res, pr)
        /\ result' = ResultObject(pr1[1], handles1[h], c)
        /\ inst' = [inst EXCEPT !.getSnapshot = h, !.value = pr1[1],
                                !.previousResult = <<>>]
  /\ client' = c /\ query' = q /\ options' = o
  /\ prevProps' = NoProps
  /\ cycle' = 1
  /\ effectDue' = TRUE
  /\ pc' = "commit"
  /\ UNCHANGED <<subs, dirty, lastEffect, thrown, unhandled, updates, pushes, norm, waiter>>

\* ----------------------------------------------------------- later renders
\* useMemo(..., [obsQuery]) (lines 99-130): a render with the handle of the
\* render before keeps the memo and its previousResult; with another handle
\* the factory runs again and its previousResult (line 100) starts unset.
MemoFor_Shared(h) == previousResult

MemoFor(h) == IF h # obsQuery THEN <<>> ELSE previousResult

\* The body of useQuery on a render after the first.  newQ, newO: the query
\* and the options are objects other than those of the render before.
Render(c, q, o, newQ, newO) ==
  LET h == obsState
      prev0 == MemoFor(h)
      res == getCurrentResult(handles[h])
      pr1 == getSnapshot(prev0, res)
      layout == ~inst.native /\ (h # obsQuery \/ pr1[1].id # result.snap.id)
      pr == IF layout THEN getSnapshot(pr1, res) ELSE pr1
  IN /\ obsQuery' = h
     /\ previousResult' = pr
     /\ lastRead' = IF layout THEN CommitRead(pr1, res, pr)
                    ELSE ReadRecord(prev0, res, pr1)
     /\ result' = ResultObject(pr1[1], handles[h], c)
     /\ inst' = IF inst.native
                THEN [inst EXCEPT !.previousResult =
                        IF h # obsQuery THEN previousResult ELSE @]
                ELSE [inst EXCEPT !.getSnapshot = h, !.value = pr1[1],
                                  !.previousResult = <<>>]
     /\ effectDue' = (h # obsQuery \/ c # client \/ newQ \/ newO)
     /\ prevProps' = [client |-> client, query |-> query, options |-> options]
     /\ client' = c /\ query' = q /\ options' = o
     /\ cycle' = cycle + 1
     /\ dirty' = FALSE
     /\ pc' = "commit"
     /\ UNCHANGED <<rp, ref, obsState, subs, handles, lastEffect, thrown,
                    unhandled, pushes, norm, waiter>>

\* The parent renders the binding with new arguments.
Update(c, q, o, newQ, newO) ==
  /\ pc = "idle"
  /\ updates < MaxUpdates
  /\ (q # query => newQ)
  /\ (~newO => o = options)
  /\ Render(c, q, o, newQ, newO)
  /\ updates' = updates + 1

\* A scheduled re-render (setObsQuery, or a store change) with the same
\* arguments.
Rerender ==
  /\ pc = "idle"
  /\ dirty
  /\ Render(client, query, options, FALSE, FALSE)
  /\ UNCHANGED updates

\* ---------------------------------------------------------------- Effects
\* The reconcile effect, lines 135-146, as run with the given outcome of
\* obsQuery.setOptions ("ok", "reject": the promise rejects, "throw": the call
\* throws) and the first result r0 of a handle it creates.  ReconcileEffect
\* is what the effect leaves behind.
\* Line 138: the client or the query is not the one of the last run.
ShouldReplace_QueryOnly == ~equal(ref.query, query)

ShouldReplace == ref.client # client \/ ~equal(ref.query, query)

\* Line 141: the options are not those ref.current.watchQueryOptions holds.
ShouldReconfigure ==
  /\ ~ShouldReplace
  /\ ~equal(ref.watchQueryOptions, createWatchQueryOptions(query, options))

\* Line 142: the rejection of the promise setOptions returns is caught.
Caught == TRUE

ReconcileEffect(outcome, r0) ==
  LET wqo == createWatchQueryOptions(query, options)
      replace == ShouldReplace
      reconf == ~replace /\ ShouldReconfigure
      throws == reconf /\ outcome = "throw"
      h == Len(handles) + 1
  IN [ \* client.watchQuery(watchQueryOptions), line 139;
       \* obsQuery.setOptions(watchQueryOptions), line 142.
       handles |->
         IF replace THEN Append(handles, watchQuery(h, client, wqo, r0))
         ELSE IF reconf /\ ~throws
           THEN [handles EXCEPT ![obsQuery] = setOptions(@, wqo)]
         ELSE handles,
       \* setObsQuery(obsQuery), line 140.
       obsState |-> IF replace THEN h ELSE obsState,
       \* Object.assign(ref.current, { client, query, options }), line 145;
       \* not reached when setOptions throws.
       ref |-> IF throws THEN ref
               ELSE [ref EXCEPT !.client = client, !.query = query,
                                !.options = options],
       thrown |-> throws,
       unhandled |-> (reconf /\ outcome = "reject" /\ ~Caught),
       log |-> [ran |-> TRUE,
                kind |-> IF replace THEN "replace"
                         ELSE IF reconf THEN "reconfigure" ELSE "noop",
                outcome |-> IF reconf THEN outcome ELSE "none",
                calls |-> IF reconf THEN 1 ELSE 0,
                obsBefore |-> obsQuery,
                cfgBefore |-> handles[obsQuery].options,
                created |-> IF replace THEN h ELSE 0,
                watchQueryOptions |-> wqo] ]

\* The effect did not run: its dependencies are those of the render before.
SkippedEffect ==
  [ handles |-> handles, obsState |-> obsState, ref |-> ref,
    thrown |-> FALSE, unhandled |-> FALSE,
    log |-> [ran |-> FALSE, kind |-> "skipped", outcome |-> "none", calls |-> 0,
             obsBefore |-> obsQuery, cfgBefore |-> handles[obsQuery].options,
             created |-> 0,
             watchQueryOptions |-> createWatchQueryOptions(query, options)] ]

\* The flush of one render's passive effects, in order: the cleanup of the
\* store subscription when subscribe changed (108-110), the reconcile effect
\* (135-146), the store subscription (102-106) with the snapshot check
\* useSyncExternalStore makes when it subscribes.
\* Whether the passive effects after the reconcile effect (the subscription
\* and the store record of line 148) run in this flush.  When the reconcile
\* effect threw, React 18 leaves the rest of the component's effects unrun;
\* of the Reacts the fallback serves, one leaves them unrun and one runs them.
RestOfFlush(threw) ==
  IF ~threw THEN {TRUE}
  ELSE IF inst.native THEN {FALSE}
  ELSE BOOLEAN

Effects(outcome, r0) ==
  /\ pc = "commit"
  /\ \E rest \in RestOfFlush(effectDue /\ ReconcileEffect(outcome, r0).thrown) :
     LET subs1 == subs \cap {obsQuery}
         e == IF effectDue THEN ReconcileEffect(outcome, r0) ELSE SkippedEffect
         subscribing == rest /\ obsQuery \notin subs1
         checking == /\ rest
                     /\ \/ subscribing
                        \/ inst.getSnapshot # obsQuery
                        \/ inst.value.id # result.snap.id
         res == getCurrentResult(e.handles[obsQuery])
         pr == IF checking THEN getSnapshot(previousResult, res)
               ELSE previousResult
     IN /\ handles' = e.handles
        /\ obsState' = e.obsState
        /\ ref' = e.ref
        /\ thrown' = (thrown \/ e.thrown)
        /\ unhandled' = (unhandled \/ e.unhandled)
        /\ lastEffect' = e.log
        /\ subs' = IF rest THEN subs1 \cup {obsQuery} ELSE subs1
        /\ previousResult' = pr
        /\ lastRead' = IF checking THEN ReadRecord(previousResult, res, pr)
                       ELSE lastRead
        /\ inst' = IF rest
                   THEN [inst EXCEPT !.getSnapshot = obsQuery,
                                     !.value = result.snap,
                                     !.previousResult = <<>>]
                   ELSE inst
        /\ dirty' = \/ dirty
                    \/ e.obsState # obsQuery
                    \/ (checking /\ pr[1].id # result.snap.id)
        /\ pc' = IF e.thrown THEN "crashed" ELSE "idle"
  /\ effectDue' = FALSE
  /\ UNCHANGED <<rp, client, query, options, prevProps, cycle, obsQuery, result,
                 updates, pushes, norm, waiter>>

\* --------------------------------------------------------------------- Push
\* The previousResult of the memo whose getSnapshot the store listener calls.
StoreMemo ==
  IF inst.getSnapshot = obsQuery THEN previousResult ELSE inst.previousResult

\* The engine replaces the current result of handle h and notifies its
\* observers.  The binding's observer is handleStoreChange (103-106), on
\* which useSyncExternalStore calls the getSnapshot it has stored and
\* schedules a render when what it returns is another object than the value
\* it has stored.
Push(h, l, ns, d, e) ==
  /\ pc \in {"commit", "idle"}
  /\ pushes < MaxPush
  /\ h \in 1..Len(handles)
  /\ LET n == handles[h].n + 1
         handles1 == [handles EXCEPT ![h].result = MkResult(h, n, l, ns, d, e),
                                     ![h].n = n]
         notified == h \in subs
         g == inst.getSnapshot
         res == getCurrentResult(handles1[g])
         pr == getSnapshot(StoreMemo, res)
     IN /\ handles' = handles1
        /\ previousResult' = IF notified /\ g = obsQuery THEN pr
                             ELSE previousResult
        /\ inst' = IF notified /\ g # obsQuery
                   THEN [inst EXCEPT !.previousResult = pr]
                   ELSE inst
        /\ lastRead' = IF notified THEN ReadRecord(StoreMemo, res, pr)
                       ELSE lastRead
        /\ dirty' = (dirty \/ (notified /\ pr[1].id # inst.value.id))
  /\ pushes' = pushes + 1
  /\ UNCHANGED <<pc, rp, client, query, options, prevProps, cycle, ref, obsState,
                 obsQuery, result, effectDue, subs, lastEffect, thrown,
                 unhandled, updates, norm, waiter>>

\* ------------------------------------------------------------------ Unmount
\* The binding is torn down: the store subscription's cleanup runs (108-110)
\* and the hooks' state (the ref, the state cell, the memo) is dropped.  The
\* handles and the coordinator are the engine's and stay.
Unmount ==
  /\ pc \in {"idle", "crashed"}
  /\ pc' = "unmounted"
  /\ subs' = {}
  /\ client' = "none" /\ query' = "none" /\ options' = NoOptions
  /\ prevProps' = NoProps
  /\ cycle' = 0
  /\ ref' = NoRef
  /\ obsState' = 0 /\ obsQuery' = 0
  /\ previousResult' = <<>>
  /\ result' = ResultObject(NoResult, [options |-> NoConfig], "none")
  /\ dirty' = FALSE
  /\ lastRead' = NoRead
  /\ lastEffect' = NoEffect
  /\ inst' = NoInst(inst.native)
  /\ updates' = 0
  /\ UNCHANGED <<rp, effectDue, handles, thrown, unhandled, pushes, norm, waiter>>

\* ---------------------------------------------------------------- Normalize
\* The caller's options object after the call: the destructuring of lines
\* 174-181 copies the remaining fields into a new object, and the
\* assignments of lines 184-198 are made on that copy.
CallerOptionsAfter(q, o) == o

\* One call of createWatchQueryOptions on its own: what it returns, and the
\* caller's object after it.
Normalize ==
  /\ ~norm.done
  /\ norm' = [norm EXCEPT !.done = TRUE,
                          !.out = createWatchQueryOptions(norm.query, norm.options),
                          !.caller = CallerOptionsAfter(norm.query, norm.options)]
  /\ UNCHANGED <<bindingVars, waiter>>

\* ------------------------------------------------- the hydration waiter
\* resolve() as called on the given path (lines 77, 82, 86).
resolve(w, path) == [w EXCEPT !.resolved = Append(@, path)]

\* sub.unsubscribe() (lines 78, 83).  Before obsQuery.subscribe has returned,
\* `sub` is not initialised and reading it throws; afterwards the call
\* detaches the listener.
unsubscribe(w) ==
  IF w.subAssigned
  THEN [w EXCEPT !.unsubscribed = @ + 1, !.attached = FALSE]
  ELSE [w EXCEPT !.failed = @ + 1]

\* The listener's next (lines 75-80).
next(w, loading) ==
  IF ~loading THEN unsubscribe(resolve(w, "data")) ELSE w

\* The listener's error (lines 81-84); the engine ends the stream with it.
error(w) ==
  [unsubscribe(resolve(w, "error")) EXCEPT !.closed = TRUE, !.attached = FALSE]

\* The listener's complete (lines 85-87); the engine ends the stream.
complete(w) ==
  [resolve(w, "complete") EXCEPT !.closed = TRUE, !.attached = FALSE]

WaiterEvents == {"none", "loading", "data", "error", "complete"}

\* One delivery of the handle to the listener.
Deliver(w, ev) ==
  CASE ev = "loading" -> next(w, TRUE)
    [] ev = "data" -> next(w, FALSE)
    [] ev = "error" -> error(w)
    [] ev = "complete" -> complete(w)
    [] OTHER -> w

\* fetchData (lines 73-89) as the coordinator calls it on a registered
\* promise: obsQuery.subscribe attaches the listener, the handle may deliver
\* to it before subscribe returns (sync), and then `sub` is assigned.
fetchData(sync) ==
  /\ rp.queryPromises > 0
  /\ ~waiter.started
  /\ LET w0 == [waiter EXCEPT !.started = TRUE, !.attached = TRUE]
         w1 == Deliver(w0, sync)
     IN waiter' = [w1 EXCEPT !.subAssigned = TRUE]
  /\ UNCHANGED <<bindingVars, norm>>

\* The handle pushes to the attached listener after fetchData has returned.
WaiterPush(ev) ==
  /\ waiter.started /\ waiter.attached /\ ~waiter.closed
  /\ waiter.events < MaxPush
  /\ ev # "none"
  /\ waiter' = [Deliver(waiter, ev) EXCEPT !.events = @ + 1]
  /\ UNCHANGED <<bindingVars, norm>>

\* ----------------------------------------------------------- specifications
Outcomes == {"ok", "reject", "throw"}

\* The caller passes the same fetchPolicy on every render of one binding.
SamePolicy(o, p) ==
  /\ Has(o, "fetchPolicy") = Has(p, "fetchPolicy")
  /\ (Has(o, "fetchPolicy") => o.fetchPolicy = p.fetchPolicy)

UpdateOptions == {x \in CycleOptions : SamePolicy(x, options)}

\* What the engine can answer to the pending effect: setOptions has an
\* outcome only when it is called, watchQuery a first result only when it is.
PossibleOutcomes ==
  IF pc = "commit" /\ effectDue /\ ShouldReconfigure
    THEN Outcomes ELSE {"ok"}

PossibleFirstResults ==
  IF pc = "commit" /\ effectDue /\ ShouldReplace
    THEN InitialResults ELSE {<<TRUE, 1, 0>>}

UpdateStep ==
  \E c \in Clients, q \in Queries, o \in UpdateOptions, newQ, newO \in BOOLEAN :
    Update(c, q, o, newQ, newO)

EffectsStep ==
  \E outcome \in PossibleOutcomes, r0 \in PossibleFirstResults :
    Effects(outcome, r0)

\* The lifecycle of one binding.
Next ==
  \/ \E o \in MountOptions, r0 \in InitialResults : Mount("c1", "Q1", o, r0)
  \/ UpdateStep
  \/ Rerender
  \/ EffectsStep
  \/ Unmount

Spec == Init /\ [][Next]_vars

\* One memoizer over one handle: the engine pushes any result.
MemoOptions == OptionsOver({0}, {0}, {"absent"}, {1}, {0}, {0})

NextMemo ==
  \/ \E o \in MemoOptions, r0 \in InitialResults : Mount("c1", "Q1", o, r0)
  \/ Rerender
  \/ Effects("ok", <<TRUE, 1, 0>>)
  \/ \E l \in BOOLEAN, ns \in NetworkStatuses, d \in DataValues, e \in Errors :
       Push(1, l, ns, d, e)

SpecMemo == Init /\ [][NextMemo]_vars

\* createWatchQueryOptions on every input.
InitNorm ==
  /\ BindingInit
  /\ rp \in [present : BOOLEAN, observables : {{}}, queryPromises : {0}]
  /\ waiter = NoWaiter
  /\ inst = NoInst(TRUE)
  /\ norm \in [done : {FALSE}, query : Queries, options : AllOptions,
                out : {NoConfig}, caller : {NoOptions}]

NextNorm == Normalize

SpecNorm == InitNorm /\ [][NextNorm]_vars

\* One binding whose query changes from render to render while the engine
\* pushes on any of the handles made so far.
ReplaceOptions == OptionsOver({0}, {0}, {"absent"}, VariableIds, {0}, {0})

\* The parent changes the query or the variables, one at a time.
ReplaceUpdate ==
  \E q \in Queries, o \in ReplaceOptions :
    /\ (q = query) # (o = options)
    /\ Update("c1", q, o, q # query, o # options)

ReplacePush ==
  \E h \in 1..Len(handles), d \in DataValues : Push(h, FALSE, 7, d, "none")

ReplaceEffects ==
  \E r0 \in PossibleFirstResults : Effects("ok", r0)

NextReplace ==
  \/ \E o \in MemoOptions, r0 \in InitialResults : Mount("c1", "Q1", o, r0)
  \/ ReplaceUpdate
  \/ Rerender
  \/ ReplaceEffects
  \/ ReplacePush
  \/ Unmount

SpecReplace == Init /\ [][NextReplace]_vars

\* A binding first rendered during a pre-render pass, or without one.  The
\* coordinator may already hold a handle another binding registered (it has
\* had one push since: n = 1).
HydrationOptions ==
  OptionsOver({0, 2}, {0, 1, 2}, {"absent", "network-only"}, {1}, {0}, {0})

RegisteredConfigs ==
  { createWatchQueryOptions("Q1", o) :
      o \in OptionsOver({0, 2}, {0}, {"absent", "network-only"}, {1}, {0}, {0}) }

RegisteredHandle(wqo, r0) ==
  [watchQuery(1, "c1", wqo, r0) EXCEPT
     !.n = 1, !.result = MkResult(1, 1, r0[1], r0[2], r0[3], "none")]

InitHydration ==
  /\ HookInit
  /\ inst \in {NoInst(native) : native \in BOOLEAN}
  /\ norm = NoNorm
  /\ waiter = NoWaiter
  /\ \/ /\ handles = <<>>
        /\ rp \in [present : BOOLEAN, observables : {{}}, queryPromises : {0}]
     \/ \E wqo \in RegisteredConfigs, r0 \in InitialResults :
          /\ handles = <<RegisteredHandle(wqo, r0)>>
          /\ rp = [present |-> TRUE, observables |-> {<<wqo, 1>>},
                   queryPromises |-> 0]

HydrationMount ==
  \E q \in Queries, o \in HydrationOptions, r0 \in InitialResults :
    Mount("c1", q, o, r0)

\* The parent renders the binding again, with the other query or the same.
HydrationUpdate ==
  \E q \in Queries : Update("c1", q, options, q # query, FALSE)

NextHydration ==
  \/ HydrationMount
  \/ HydrationUpdate
  \/ Rerender
  \/ Effects("ok", <<TRUE, 1, 0>>)
  \/ Unmount
  \/ \E sync \in WaiterEvents : fetchData(sync)
  \/ \E ev \in WaiterEvents : WaiterPush(ev)

SpecHydration == InitHydration /\ [][NextHydration]_vars

\* ================================================================== claims

\* The three fields getSnapshot compares.
SameThree(a, b) ==
  /\ a.loading = b.loading
  /\ a.networkStatus = b.networkStatus
  /\ a.data = b.data

\* C1: a getSnapshot call that reads a result whose loading, networkStatus
\* and data equal those of previousResult returns the object the call before
\* it returned and leaves previousResult as it was.
C1_Stability ==
  (lastRead.valid /\ lastRead.prev # <<>> /\ SameThree(lastRead.prev[1], lastRead.res))
    => /\ lastRead.ret = lastRead.prev[1]
       /\ lastRead.ret = lastRead.retBefore
       /\ lastRead.after = lastRead.prev

\* The handle held another object with the same three fields and another
\* error, and the cached object was returned.
C1_Witness ==
  /\ lastRead.valid /\ lastRead.prev # <<>>
  /\ SameThree(lastRead.prev[1], lastRead.res)
  /\ lastRead.res.id # lastRead.prev[1].id
  /\ lastRead.res.error # lastRead.prev[1].error
  /\ lastRead.ret.id = lastRead.prev[1].id

\* C2: a getSnapshot call that reads a result whose error is not that of
\* previousResult returns the result it read.
C2_ErrorNeverSuppressed ==
  (lastRead.valid /\ lastRead.prev # <<>>
     /\ lastRead.res.error # lastRead.prev[1].error)
    => (lastRead.ret = lastRead.res /\ lastRead.ret.error = lastRead.res.error)

\* C3: a getSnapshot call that finds no previousResult, or reads a result
\* that differs from it in loading, networkStatus or data, returns the result
\* it read and stores it as previousResult.
C3_Reactivity ==
  (lastRead.valid
     /\ (lastRead.prev = <<>> \/ ~SameThree(lastRead.prev[1], lastRead.res)))
    => (lastRead.ret = lastRead.res /\ lastRead.after = <<lastRead.res>>)

\* Only the data differ, and the result read is returned.
C3_Witness ==
  /\ lastRead.valid /\ lastRead.prev # <<>>
  /\ lastRead.prev[1].loading = lastRead.res.loading
  /\ lastRead.prev[1].networkStatus = lastRead.res.networkStatus
  /\ lastRead.prev[1].error = lastRead.res.error
  /\ lastRead.prev[1].data # lastRead.res.data
  /\ lastRead.ret = lastRead.res
  /\ previousResult = <<lastRead.res>>

\* The effects of a cycle after the first have been flushed.
CycleDone == pc \in {"idle", "crashed"} /\ cycle > 1

ClientOrQueryChanged ==
  prevProps.client # client \/ ~equal(prevProps.query, query)

ConfigChanged ==
  ~equal(createWatchQueryOptions(prevProps.query, prevProps.options),
         createWatchQueryOptions(query, options))

\* C4: after a cycle whose client or query is not that of the cycle before,
\* the state cell holds a handle created in that cycle from that cycle's
\* configuration and client, another one than the cycle rendered with; and
\* every render uses the handle the state cell holds.
C4_HardReplace ==
  /\ (CycleDone /\ ClientOrQueryChanged)
       => /\ lastEffect.kind = "replace"
          /\ obsState = lastEffect.created
          /\ obsState = Len(handles)
          /\ obsState # lastEffect.obsBefore
          /\ lastEffect.obsBefore = obsQuery
          /\ handles[obsState].client = client
          /\ equal(handles[obsState].options,
                   createWatchQueryOptions(query, options))
          /\ handles[obsState].setOptionsCalls = 0
  /\ (pc = "commit" => obsQuery = obsState)

\* Only the client changed, and the handle was replaced.
C4_Witness ==
  /\ CycleDone
  /\ prevProps.client # client
  /\ prevProps.query = query
  /\ prevProps.options = options
  /\ lastEffect.kind = "replace"
  /\ obsState # obsQuery

\* C5: after a cycle with the client and query of the cycle before and
\* another configuration, the handle is the same, one setOptions call was
\* made, no handle was created and the store listener is still subscribed.
C5_SoftReconfigure ==
  (CycleDone /\ ~ClientOrQueryChanged /\ ConfigChanged)
    => /\ obsState = lastEffect.obsBefore
       /\ obsState = obsQuery
       /\ lastEffect.calls = 1
       /\ lastEffect.created = 0
       /\ obsQuery \in subs

\* C6: while client and query never change (one handle), after each cycle's
\* reconcile step the options last applied to the handle are that cycle's.
C6_AppliedConfigIsCurrent ==
  (pc = "idle" /\ Len(handles) = 1)
    => equal(handles[obsState].options, createWatchQueryOptions(query, options))

\* C7: a reconcile step with the client and query of the cycle before and
\* options deeply equal to those last applied to the handle does nothing.
C7_NoOpWhenEqual ==
  (CycleDone /\ lastEffect.ran /\ ~ClientOrQueryChanged
     /\ equal(lastEffect.cfgBefore, lastEffect.watchQueryOptions))
    => /\ lastEffect.kind = "noop"
       /\ lastEffect.calls = 0
       /\ lastEffect.created = 0
       /\ obsState = lastEffect.obsBefore

\* C8: when setOptions fails, by rejecting or by throwing, the reconcile
\* step completes, nothing is thrown to the runtime, the handle stays and
\* ref.current holds the cycle's client, query and options.
C8_ReconfigureFailureSwallowed ==
  (pc \in {"idle", "crashed"} /\ lastEffect.kind = "reconfigure"
     /\ lastEffect.outcome \in {"reject", "throw"})
    => /\ pc = "idle"
       /\ ~thrown
       /\ ~unhandled
       /\ obsState = lastEffect.obsBefore
       /\ ref.client = client
       /\ ref.query = query
       /\ ref.options = options

\* C9: with skip set, the options createWatchQueryOptions returns have
\* fetchPolicy "standby".
C9_SkipForcesStandby ==
  (norm.done /\ OptSkip(norm.options))
    => (Has(norm.out, "fetchPolicy") /\ norm.out.fetchPolicy = "standby")

\* skip with a network policy and renderPromises in the options' context.
C9_Witness ==
  /\ norm.done
  /\ OptSkip(norm.options)
  /\ Has(norm.options, "fetchPolicy")
  /\ norm.options.fetchPolicy = "network-only"
  /\ Has(norm.options, "context")
  /\ norm.options.context.renderPromises
  /\ norm.out.fetchPolicy = "standby"

\* C10: with context.renderPromises present, skip not set and a fetchPolicy
\* of "network-only" or "cache-and-network", the handle of the first cycle
\* is created with fetchPolicy "cache-first".
C10_HydrationDowngrade ==
  (cycle = 1 /\ rp.present /\ ~OptSkip(options)
     /\ Has(options, "fetchPolicy")
     /\ options.fetchPolicy \in {"network-only", "cache-and-network"})
    => /\ handles[obsQuery].options.fetchPolicy = "cache-first"
       /\ ref.watchQueryOptions.fetchPolicy = "cache-first"

\* The hydration context createWatchQueryOptions tests (line 186).
OptRenderPromises(o) == Has(o, "context") /\ o.context.renderPromises

\* C11: with skip not set and no renderPromises in the options' context, the
\* options createWatchQueryOptions returns have fetchPolicy "cache-first"
\* when none was supplied, and the supplied fetchPolicy otherwise.
C11_DefaultOrSuppliedPolicy ==
  (norm.done /\ ~OptSkip(norm.options) /\ ~OptRenderPromises(norm.options))
    => /\ Has(norm.out, "fetchPolicy")
       /\ norm.out.fetchPolicy =
            IF Has(norm.options, "fetchPolicy") THEN norm.options.fetchPolicy
            ELSE "cache-first"

\* A network policy is supplied with a context that has no renderPromises,
\* skip is false, and the policy is kept.
C11_Witness ==
  /\ norm.done
  /\ Has(norm.options, "skip") /\ ~norm.options.skip
  /\ Has(norm.options, "context") /\ ~norm.options.context.renderPromises
  /\ Has(norm.options, "fetchPolicy")
  /\ norm.options.fetchPolicy = "cache-and-network"
  /\ norm.out.fetchPolicy = "cache-and-network"

\* C18: on every input the options createWatchQueryOptions returns hold
\* none of the hook fields, hold every other supplied field but fetchPolicy
\* with its value, hold the query it was called with, hold nothing else, and
\* the caller's object is as it was.
C18_StripCarryAttach ==
  norm.done
    => /\ (DOMAIN norm.out) \cap HookFields = {}
       /\ \A f \in (DOMAIN norm.options) \ (HookFields \cup {"fetchPolicy"}) :
            Has(norm.out, f) /\ norm.out[f] = norm.options[f]
       /\ Has(norm.out, "query")
       /\ norm.out.query = norm.query
       /\ DOMAIN norm.out =
            ((DOMAIN norm.options) \ HookFields) \cup {"query", "fetchPolicy"}
       /\ norm.caller = norm.options

\* C12: for a started wait, resolve() is called by at most one of the three
\* paths (data, error, completion) and by none of them a second time,
\* whatever the handle delivers, a delivery made while obsQuery.subscribe is
\* still running included.
C12_OneResolutionPath == Len(waiter.resolved) <= 1

\* C13: once the waiter is resolved its listener is off the handle, and
\* sub.unsubscribe() has gone through once when the data or the error path
\* resolved it (never more than once).
C13_ResolvedListenerDetached ==
  waiter.resolved # <<>>
    => /\ ~waiter.attached
       /\ waiter.unsubscribed <= 1
       /\ (waiter.resolved[1] \in {"data", "error"} => waiter.unsubscribed = 1)

\* C14: the object a render returns carries the variables of that render's
\* own normalized options: it was read from a handle to which the cycle's
\* hard replace or soft reconfigure had already been applied.
C14_ReadAfterReconcile ==
  pc = "commit"
    => result.variables =
         Variables([options |-> createWatchQueryOptions(query, options)])

\* C15: once a hard replace has put another handle in the state cell and a
\* render has taken it up, a push of the old handle does not reach the store
\* listener.
C15_NoStaleDelivery ==
  [][\A h \in 1..Len(handles) :
       (handles'[h].n # handles[h].n /\ h \in subs)
         => (h = obsState \/ h = obsQuery)]_vars

\* C16: the first render adds one query promise to the coordinator exactly
\* when the coordinator is there, ssr is not false, skip is not set and the
\* result the handle holds is loading; no later step adds one, so the binding
\* never has more than one.
FirstRender == pc = "init" /\ pc' = "commit"

HydrationEligible ==
  /\ rp.present
  /\ OptSsrNotFalse(options')
  /\ ~OptSkip(options')
  /\ result'.snap.loading

C16_RegisteredIffEligible ==
  [][/\ FirstRender =>
          rp'.queryPromises =
            IF HydrationEligible THEN rp.queryPromises + 1 ELSE rp.queryPromises
     /\ ~FirstRender => rp'.queryPromises = rp.queryPromises
     /\ rp'.queryPromises <= 1]_vars

\* A later cycle has put a second, loading handle in place under a
\* coordinator, and the one promise of the first render is all there is.
C16_Witness ==
  /\ pc = "idle"
  /\ rp.present
  /\ rp.queryPromises = 1
  /\ cycle >= 3
  /\ obsState = 2 /\ obsQuery = 2
  /\ getCurrentResult(handles[2]).loading
  /\ ~OptSkip(options) /\ OptSsrNotFalse(options)

\* C17: on the first render, a coordinator that holds a handle for the
\* normalized options has that handle adopted and nothing is created or
\* registered; a coordinator that holds none gets the one new handle,
\* created from the normalized options, registered under them; without a
\* coordinator one handle is created and nothing is registered.
C17_AdoptOrCreate ==
  [][FirstRender =>
       LET cfg == createWatchQueryOptions(query', options')
           held == {e \in rp.observables : e[1] = cfg}
       IN IF rp.present /\ held # {}
            THEN /\ obsState' \in {e[2] : e \in held}
                 /\ handles' = handles
                 /\ rp'.observables = rp.observables
            ELSE /\ Len(handles') = Len(handles) + 1
                 /\ obsState' = Len(handles')
                 /\ handles'[obsState'].options = cfg
                 /\ \A h \in 1..Len(handles) : handles'[h] = handles[h]
                 /\ rp'.observables =
                      IF rp.present THEN rp.observables \cup {<<cfg, obsState'>>}
                      ELSE rp.observables]_vars

\* The handle the coordinator held (it has had a push: n = 1) is the
\* binding's, it is the only one, and being loading it got a promise.
C17_Witness ==
  /\ pc = "commit" /\ cycle = 1
  /\ rp.present
  /\ Len(handles) = 1
  /\ handles[1].n = 1
  /\ obsState = 1
  /\ rp.observables = {<<ref.watchQueryOptions, 1>>}
  /\ rp.queryPromises = 1

\* C19: what a memo holds was read from the handle the memo was made for
\* (the memo of the last render, and the memo the store listener still
\* calls when that is an older one); a getSnapshot call returns a result of
\* the handle it read and starts from the memo of that handle as it was (a
\* soft reconfigure in between does not touch it), which is unset on the
\* first read of a handle; a step without a read leaves the memo alone.
MemoOf(h) ==
  IF h = obsQuery THEN previousResult
  ELSE IF h = inst.getSnapshot THEN inst.previousResult
  ELSE <<>>

MemoAfter(h) ==
  IF h = obsQuery' THEN previousResult'
  ELSE IF h = inst'.getSnapshot THEN inst'.previousResult
  ELSE <<>>

C19_MemoPerHandle ==
  [][/\ previousResult' # <<>> => previousResult'[1].id[1] = obsQuery'
     /\ (obsQuery' # obsQuery /\ obsQuery' # 0)
          => result'.snap = getCurrentResult(handles'[obsQuery'])
     /\ inst'.previousResult # <<>>
          => inst'.previousResult[1].id[1] = inst'.getSnapshot
     /\ (lastRead'.valid /\ lastRead' # lastRead)
          => /\ lastRead'.ret.id[1] = lastRead'.res.id[1]
             /\ \/ lastRead'.prev = MemoOf(lastRead'.res.id[1])
                \/ /\ lastRead'.prev = lastRead'.after
                   /\ lastRead'.prev = MemoAfter(lastRead'.res.id[1])
     /\ (obsQuery' = obsQuery /\ lastRead' = lastRead)
          => previousResult' = previousResult]_vars

\* The first read on the second handle returned that handle's first result,
\* whose three fields equal those of the last result returned for the first
\* handle; and the second handle has since been reconfigured and read again
\* with the memo of that first read.
C19_Witness ==
  /\ obsQuery = 2
  /\ previousResult # <<>>
  /\ previousResult[1].id = <<2, 0>>
  /\ SameThree(previousResult[1], getCurrentResult(handles[1]))
  /\ handles[2].setOptionsCalls > 0
  /\ lastRead.valid
  /\ lastRead.prev = previousResult
  /\ lastRead.ret.id = <<2, 0>>

\* C20: the store listener is attached to at most one handle, that handle
\* is the current one (the one in the state cell, or the one the last render
\* closed over while a replacement is being taken up), and after the
\* teardown it is attached to none.
C20_OneListenerOnCurrent ==
  /\ Cardinality(subs) <= 1
  /\ pc = "unmounted" => subs = {}
  /\ subs \subseteq {obsState, obsQuery}

====
